---- MODULE Spec2Model ----
(***************************************************************************)
(* bt::gatt::internal::RemoteServiceManager                                *)
(* (pw_bluetooth_sapphire/host/gatt/remote_service_manager.cc).            *)
(*                                                                         *)
(* The manager runs on one dispatcher.  Every handler is one action, cut   *)
(* only where it calls user code that may call back into the manager: the  *)
(* service watcher, the Initialize completion and the callback of a        *)
(* pending ListServices request.  pc says which of these user callbacks is *)
(* running; the Return* actions are the rest of the handler.  Inside such  *)
(* a callback the user may call ListServices and FindService or destroy    *)
(* the manager.  The callbacks the destructor calls, and the callback of a *)
(* ListServices that is answered at once, are taken not to call back into  *)
(* the manager.                                                            *)
(***************************************************************************)
EXTENDS Integers, Sequences, FiniteSets, TLC

VARIABLES
  alive,        \* the manager object exists (weak pointers |self| are valid)
  initialized,  \* initialized_
  services,     \* services_ : std::map keyed by range_start, as a set of ServiceData
  pending,      \* pending_ : std::queue<ServiceListRequest>
  handler,      \* the Client's notification handler is bound to OnNotification
  svc_watcher,  \* svc_watcher_ is set
  phase,        \* the transport request in flight
  initFilter,   \* the |services| vector captured by the closures of Initialize
  requests,     \* requests issued to the Client, in order
  secReported,  \* the secondary discovery has reported a service
  pc,           \* "idle", a user callback in progress, or "aborted"
  cbStatus,     \* |status| of the handler that is suspended in a user callback
  watchRest,    \* services the watcher loop has still to visit
  nextId,       \* identity of the next ListServices call
  log,          \* outward calls made by the manager, in order
  lastNotif,    \* the OnNotification call just made and what it delivered
  lastSvc,      \* the ServiceData the svc_cb call just made was given
  uaf,          \* a continuation has dereferenced |self| after destruction
  added,        \* records AddService has put in services_, with the phase
  endPhase,     \* phase whose status ended the discovery sequence
  endStatus,    \* that status, as the Client reported it
  dtorPhase,    \* phase at the time of destruction
  dtorPc,       \* pc at the time of destruction
  lastFind,     \* the FindService call just made and what it returned
  completed     \* transport requests that have completed, with the status

vars == <<alive, initialized, services, pending, handler, svc_watcher, phase,
          initFilter, requests, secReported, pc, cbStatus, watchRest, nextId,
          log, lastNotif, lastSvc, uaf, added, endPhase, endStatus, dtorPhase,
          dtorPc, lastFind, completed>>

----------------------------------------------------------------------------
(* Bounds and inputs *)

MaxQueries == 2
MaxHandle == 6

Handles == 1..MaxHandle

SvcA == [range_start |-> 2, range_end |-> 3, uuid |-> "A"]
SvcB == [range_start |-> 5, range_end |-> 5, uuid |-> "B"]
SvcDup == [range_start |-> 2, range_end |-> 5, uuid |-> "B"]

\* ServiceData the peer may report: two disjoint services with a gap between
\* them, and one that repeats a start handle and overlaps the other.
ServiceDatas == {SvcA, SvcB, SvcDup}

UuidFilters == {{}, {"B"}}

\* att::Status values: success, HostError::kFailed, the protocol error
\* kUnsupportedGroupType and some other protocol error.
Statuses == {"ok", "failed", "unsupported_group", "proto_other"}

\* What the Client reports as the end of a request.
TransportStatuses == Statuses

NoSvc == [range_start |-> 0, range_end |-> 0, uuid |-> "-"]

NoNotif == [h |-> 0, delivered |-> <<>>]

NoFind == [h |-> 0, result |-> NoSvc]

\* An outward call: what is called, for which ListServices request (id, uu),
\* with which status and result, or for which service record.
Ev(e, i, s, r, v) ==
  [ev |-> e, id |-> i, uu |-> {}, st |-> s, res |-> r, svc |-> v]

----------------------------------------------------------------------------
(* att::Status *)

IsError(status) == status # "ok"

IsProtocolError(status) == status \in {"unsupported_group", "proto_other"}

----------------------------------------------------------------------------
(* std::map<att::Handle, RemoteService> *)

First(svcs) == CHOOSE s \in svcs : \A t \in svcs : s.range_start <= t.range_start

Last(svcs) == CHOOSE s \in svcs : \A t \in svcs : s.range_start >= t.range_start

RECURSIVE Iterate(_)
Iterate(svcs) ==
  IF svcs = {} THEN <<>>
  ELSE <<First(svcs)>> \o Iterate(svcs \ {First(svcs)})

Find(svcs, handle) == {s \in svcs : s.range_start = handle}

----------------------------------------------------------------------------
----------------------------------------------------------------------------
(* FindService *)

\* A lookup that takes the record whose handle range holds the handle.
FindServiceInRange(svcs, handle) ==
  IF \E s \in svcs : s.range_start <= handle /\ handle <= s.range_end
  THEN CHOOSE s \in svcs : s.range_start <= handle /\ handle <= s.range_end
  ELSE NoSvc

\* services_.find(handle): the record, or nullptr.
FindService(svcs, handle) ==
  IF Find(svcs, handle) = {} THEN NoSvc
  ELSE CHOOSE s \in Find(svcs, handle) : TRUE

(* ServiceListRequest::Complete *)

\* A predicate that lets every record through, whatever uuids_ holds.
MatchesIgnoresFilter(uuids, svc) == TRUE

Matches(uuids, svc) == uuids = {} \/ svc.uuid \in uuids

FilterServices(uuids, svcs) ==
  SelectSeq(Iterate(svcs), LAMBDA s : Matches(uuids, s))

\* The ServiceList handed to callback_.
CompleteResult(uuids, status, svcs) ==
  IF IsError(status) \/ svcs = {} THEN <<>> ELSE FilterServices(uuids, svcs)

\* The call of callback_, made by |src|.
Complete(req, status, svcs, src) ==
  [Ev(src, req.id, status, CompleteResult(req.uuids, status, svcs), NoSvc)
     EXCEPT !.uu = req.uuids]

----------------------------------------------------------------------------
(* ClearServices, AddService *)

ShutDownEvents(svcs) ==
  [i \in 1..Cardinality(svcs) |-> Ev("shutdown", 0, "", <<>>, Iterate(svcs)[i])]

\* A ClearServices that shuts the records down and leaves them in the map.
ClearServicesKeep(svcs) == [services |-> svcs, events |-> ShutDownEvents(svcs)]

\* A ClearServices that drops the records without shutting them down.
ClearServicesNoShutDown(svcs) == [services |-> {}, events |-> <<>>]

\* services_ is moved out and every record is shut down in map order.
ClearServices(svcs) == [services |-> {}, events |-> ShutDownEvents(svcs)]

\* An AddService that replaces the record already stored for the handle.
AddServiceOverwrite(svcs, data, allocOk) ==
  IF ~allocOk THEN svcs
  ELSE (svcs \ Find(svcs, data.range_start)) \cup {data}

AddService(svcs, data, allocOk) ==
  IF Find(svcs, data.range_start) # {} THEN svcs
  ELSE IF ~allocOk THEN svcs
  ELSE svcs \cup {data}

----------------------------------------------------------------------------
(* ~RemoteServiceManager *)

\* att::Status status(HostError::kFailed)
DestroyedStatus == "failed"

DrainOnDestroy(pend, svcs) ==
  [i \in 1..Len(pend) |-> Complete(pend[i], DestroyedStatus, svcs, "query_dtor")]

\* A destructor that detaches the notification handler last.
DestructorEventsDetachLast(svcs, pend) ==
  ClearServices(svcs).events
    \o DrainOnDestroy(pend, ClearServices(svcs).services)
    \o <<Ev("detach", 0, "", <<>>, NoSvc)>>

\* Outward calls of the destructor, in program order.
DestructorEvents(svcs, pend) ==
  <<Ev("detach", 0, "", <<>>, NoSvc)>>
    \o ClearServices(svcs).events
    \o DrainOnDestroy(pend, ClearServices(svcs).services)

----------------------------------------------------------------------------
(* OnNotification *)

\* A lookup that always takes begin().
CandidateBegin(svcs, value_handle) == First(svcs)

\* services_.upper_bound(value_handle), stepped back unless it is begin().
Candidate(svcs, value_handle) ==
  LET notAfter == {s \in svcs : s.range_start <= value_handle}
  IN IF notAfter = {} THEN First(svcs) ELSE Last(notAfter)

\* ZX_DEBUG_ASSERT(value_handle >= svc->handle())
HandleAssert(svc, value_handle) == value_handle >= svc.range_start

\* No check of range_end.
InRangeAlways(svc, value_handle) == TRUE

InRange(svc, value_handle) == svc.range_end >= value_handle

\* Records whose HandleNotification is called, in call order.
Delivered(svcs, value_handle) ==
  IF svcs = {} THEN <<>>
  ELSE IF InRange(Candidate(svcs, value_handle), value_handle)
       THEN <<Candidate(svcs, value_handle)>>
       ELSE <<>>

----------------------------------------------------------------------------
(* DiscoverServices::secondary_discov_cb *)

\* No downgrade of kUnsupportedGroupType.
SecondaryStatusKept(status) == status

SecondaryStatus(status) ==
  IF IsProtocolError(status) /\ status = "unsupported_group" THEN "ok" ELSE status

\* ListServices on an initialized manager: att::Status()
ImmediateStatus == "ok"

----------------------------------------------------------------------------
Init ==
  /\ alive = TRUE
  /\ initialized = FALSE
  /\ services = {}
  /\ pending = <<>>
  /\ handler = TRUE
  /\ svc_watcher = FALSE
  /\ phase = "none"
  /\ initFilter = {}
  /\ requests = <<>>
  /\ secReported = FALSE
  /\ pc = "idle"
  /\ cbStatus = "ok"
  /\ watchRest = <<>>
  /\ nextId = 1
  /\ log = <<>>
  /\ lastNotif = NoNotif
  /\ lastSvc = NoSvc
  /\ uaf = FALSE
  /\ added = {}
  /\ endPhase = "none"
  /\ endStatus = "ok"
  /\ dtorPhase = "none"
  /\ dtorPc = "none"
  /\ lastFind = NoFind
  /\ completed = <<>>

\* An init_cb that hands user_init_cb the generic failure for every error.
InitCbGenericFailure(status, logSoFar) ==
  /\ initialized' = TRUE
  /\ log' = Append(logSoFar,
                   Ev("init_cb", 0, IF IsError(status) THEN DestroyedStatus ELSE status,
                      <<>>, NoSvc))
  /\ pc' = "user_init_cb"
  /\ cbStatus' = status
  /\ watchRest' = <<>>

\* An init_cb that sets initialized_ only for a success status.
InitCbFlagOnSuccess(status, logSoFar) ==
  /\ initialized' = ~IsError(status)
  /\ log' = Append(logSoFar, Ev("init_cb", 0, status, <<>>, NoSvc))
  /\ pc' = "user_init_cb"
  /\ cbStatus' = status
  /\ watchRest' = <<>>

\* init_cb on a live manager, up to the call of user_init_cb.
InitCb(status, logSoFar) ==
  /\ initialized' = TRUE
  /\ log' = Append(logSoFar, Ev("init_cb", 0, status, <<>>, NoSvc))
  /\ pc' = "user_init_cb"
  /\ cbStatus' = status
  /\ watchRest' = <<>>

\* A status_cb_wrapper that notifies the watcher whatever the status.
StatusCbWrapperNotifiesAlways(status) ==
  IF ~alive
  THEN UNCHANGED <<services, initialized, log, pc, cbStatus, watchRest>>
  ELSE IF svc_watcher /\ services # {}
  THEN /\ log' = Append(log, Ev("watcher", 0, "", <<>>, Head(Iterate(services))))
       /\ watchRest' = Tail(Iterate(services))
       /\ pc' = "watcher"
       /\ cbStatus' = status
       /\ UNCHANGED <<services, initialized>>
  ELSE IF IsError(status)
  THEN /\ services' = ClearServices(services).services
       /\ InitCb(status, log \o ClearServices(services).events)
  ELSE /\ UNCHANGED services
       /\ InitCb(status, log)

\* A status_cb_wrapper that sets initialized_ before the watcher loop.
StatusCbWrapperFlagFirst(status) ==
  IF ~alive
  THEN UNCHANGED <<services, initialized, log, pc, cbStatus, watchRest>>
  ELSE IF IsError(status)
  THEN /\ services' = ClearServices(services).services
       /\ InitCb(status, log \o ClearServices(services).events)
  ELSE IF svc_watcher /\ services # {}
  THEN /\ log' = Append(log, Ev("watcher", 0, "", <<>>, Head(Iterate(services))))
       /\ watchRest' = Tail(Iterate(services))
       /\ pc' = "watcher"
       /\ cbStatus' = status
       /\ initialized' = TRUE
       /\ UNCHANGED services
  ELSE /\ UNCHANGED services
       /\ InitCb(status, log)

\* status_cb_wrapper, up to the first call of user code.
StatusCbWrapper(status) ==
  IF ~alive
  THEN UNCHANGED <<services, initialized, log, pc, cbStatus, watchRest>>
  ELSE IF IsError(status)
  THEN /\ services' = ClearServices(services).services
       /\ InitCb(status, log \o ClearServices(services).events)
  ELSE IF svc_watcher /\ services # {}
  THEN /\ log' = Append(log, Ev("watcher", 0, "", <<>>, Head(Iterate(services))))
       /\ watchRest' = Tail(Iterate(services))
       /\ pc' = "watcher"
       /\ cbStatus' = status
       /\ UNCHANGED <<services, initialized>>
  ELSE /\ UNCHANGED services
       /\ InitCb(status, log)

SetServiceWatcher ==
  /\ alive /\ pc = "idle" /\ ~svc_watcher
  /\ svc_watcher' = TRUE
  /\ lastNotif' = NoNotif /\ lastSvc' = NoSvc /\ lastFind' = NoFind
  /\ UNCHANGED <<alive, initialized, services, pending, handler, phase,
                 initFilter, requests, secReported, pc, cbStatus,
                 watchRest, nextId, log, uaf, added, endPhase, endStatus,
                 dtorPhase, dtorPc, completed>>

Initialize(uuids) ==
  /\ alive /\ pc = "idle" /\ phase = "none"
  /\ phase' = "mtu"
  /\ initFilter' = uuids
  /\ requests' = Append(requests, [kind |-> "mtu", uuids |-> {}])
  /\ lastNotif' = NoNotif /\ lastSvc' = NoSvc /\ lastFind' = NoFind
  /\ UNCHANGED <<alive, initialized, services, pending, handler, svc_watcher,
                 secReported, pc, cbStatus, watchRest, nextId, log,
                 uaf, added, endPhase, endStatus, dtorPhase, dtorPc,
                 completed>>

\* An ExchangeMTU callback without the return after init_cb(status): it goes
\* on to DiscoverServices on an error too.
MtuCompleteNoReturn(status) ==
  /\ pc = "idle" /\ phase = "mtu"
  /\ lastNotif' = NoNotif /\ lastSvc' = NoSvc /\ lastFind' = NoFind
  /\ IF ~alive
     THEN /\ phase' = "done"
          /\ UNCHANGED <<initialized, log, pc, cbStatus, watchRest, requests>>
     ELSE /\ phase' = "primary"
          /\ requests' = Append(requests, [kind |-> "primary", uuids |-> initFilter])
          /\ IF IsError(status)
             THEN InitCb(status, log)
             ELSE UNCHANGED <<initialized, log, pc, cbStatus, watchRest>>
  /\ endPhase' = IF phase' = "done" THEN "mtu" ELSE endPhase
  /\ endStatus' = IF phase' = "done" THEN status ELSE endStatus
  /\ completed' = Append(completed, [kind |-> "mtu", st |-> status])
  /\ UNCHANGED <<alive, services, pending, handler, svc_watcher, initFilter,
                 secReported, nextId, uaf, added, dtorPhase, dtorPc>>

\* The callback given to Client::ExchangeMTU.
MtuComplete(status) ==
  /\ pc = "idle" /\ phase = "mtu"
  /\ lastNotif' = NoNotif /\ lastSvc' = NoSvc /\ lastFind' = NoFind
  /\ IF ~alive
     THEN /\ phase' = "done"
          /\ UNCHANGED <<initialized, log, pc, cbStatus, watchRest, requests>>
     ELSE IF IsError(status)
     THEN /\ phase' = "done"
          /\ InitCb(status, log)
          /\ UNCHANGED requests
     ELSE /\ phase' = "primary"
          /\ requests' = Append(requests, [kind |-> "primary", uuids |-> initFilter])
          /\ UNCHANGED <<initialized, log, pc, cbStatus, watchRest>>
  /\ endPhase' = IF phase' = "done" THEN "mtu" ELSE endPhase
  /\ endStatus' = IF phase' = "done" THEN status ELSE endStatus
  /\ completed' = Append(completed, [kind |-> "mtu", st |-> status])
  /\ UNCHANGED <<alive, services, pending, handler, svc_watcher, initFilter,
                 secReported, nextId, uaf, added, dtorPhase, dtorPc>>

\* A svc_cb that calls AddService without testing |self|.
SvcDiscoveredNoSelfTest(data, allocOk) ==
  /\ pc = "idle" /\ phase \in {"primary", "secondary"}
  /\ secReported' = (secReported \/ phase = "secondary")
  /\ services' = AddService(services, data, allocOk)
  /\ added' = IF services' # services
              THEN added \cup {[kind |-> phase, data |-> data]} ELSE added
  /\ lastNotif' = NoNotif /\ lastSvc' = data /\ lastFind' = NoFind
  /\ UNCHANGED <<alive, initialized, pending, handler, svc_watcher, phase,
                 initFilter, requests, pc, cbStatus, watchRest, nextId, log,
                 uaf, endPhase, endStatus, dtorPhase, dtorPc, completed>>

\* svc_cb of DiscoverServicesOfKind.
SvcDiscovered(data, allocOk) ==
  /\ pc = "idle" /\ phase \in {"primary", "secondary"}
  /\ secReported' = (secReported \/ phase = "secondary")
  /\ services' = IF alive THEN AddService(services, data, allocOk) ELSE services
  /\ added' = IF services' # services
              THEN added \cup {[kind |-> phase, data |-> data]} ELSE added
  /\ lastNotif' = NoNotif /\ lastSvc' = data /\ lastFind' = NoFind
  /\ UNCHANGED <<alive, initialized, pending, handler, svc_watcher, phase,
                 initFilter, requests, pc, cbStatus, watchRest, nextId, log,
                 uaf, endPhase, endStatus, dtorPhase, dtorPc, completed>>

\* A primary_discov_cb without the return after status_cb_wrapper(status):
\* it goes on to the secondary discovery on an error too.
PrimaryCompleteNoReturn(status) ==
  /\ pc = "idle" /\ phase = "primary"
  /\ lastNotif' = NoNotif /\ lastSvc' = NoSvc /\ lastFind' = NoFind
  /\ IF ~alive
     THEN /\ phase' = "done"
          /\ StatusCbWrapper(status)
          /\ UNCHANGED requests
     ELSE /\ phase' = "secondary"
          /\ requests' = Append(requests, [kind |-> "secondary", uuids |-> initFilter])
          /\ IF IsError(status)
             THEN StatusCbWrapper(status)
             ELSE UNCHANGED <<services, initialized, log, pc, cbStatus, watchRest>>
  /\ endPhase' = IF phase' = "done" THEN "primary" ELSE endPhase
  /\ endStatus' = IF phase' = "done" THEN status ELSE endStatus
  /\ completed' = Append(completed, [kind |-> "primary", st |-> status])
  /\ UNCHANGED <<alive, pending, handler, svc_watcher, initFilter,
                 secReported, nextId, uaf, added, dtorPhase, dtorPc>>

\* primary_discov_cb
PrimaryComplete(status) ==
  /\ pc = "idle" /\ phase = "primary"
  /\ lastNotif' = NoNotif /\ lastSvc' = NoSvc /\ lastFind' = NoFind
  /\ IF ~alive \/ IsError(status)
     THEN /\ phase' = "done"
          /\ StatusCbWrapper(status)
          /\ UNCHANGED requests
     ELSE /\ phase' = "secondary"
          /\ requests' = Append(requests, [kind |-> "secondary", uuids |-> initFilter])
          /\ UNCHANGED <<services, initialized, log, pc, cbStatus, watchRest>>
  /\ endPhase' = IF phase' = "done" THEN "primary" ELSE endPhase
  /\ endStatus' = IF phase' = "done" THEN status ELSE endStatus
  /\ completed' = Append(completed, [kind |-> "primary", st |-> status])
  /\ UNCHANGED <<alive, pending, handler, svc_watcher, initFilter,
                 secReported, nextId, uaf, added, dtorPhase, dtorPc>>

\* What the Client may report as the end of the secondary discovery: a peer
\* without the secondary group type fails the first request, so the error
\* comes with zero results.
ClientMayReport(status) == status = "unsupported_group" => ~secReported

\* secondary_discov_cb
SecondaryComplete(status) ==
  /\ pc = "idle" /\ phase = "secondary"
  /\ ClientMayReport(status)
  /\ lastNotif' = NoNotif /\ lastSvc' = NoSvc /\ lastFind' = NoFind
  /\ phase' = "done"
  /\ StatusCbWrapper(SecondaryStatus(status))
  /\ endPhase' = "secondary"
  /\ endStatus' = status
  /\ completed' = Append(completed, [kind |-> "secondary", st |-> status])
  /\ UNCHANGED <<alive, pending, handler, svc_watcher, initFilter, requests,
                 secReported, nextId, uaf, added, dtorPhase, dtorPc>>

\* A ListServices that answers at once only when pending_ is empty too.
ListServicesBehindPending(uuids) ==
  /\ alive /\ pc \in {"idle", "watcher", "user_init_cb", "drain"}
  /\ nextId <= MaxQueries
  /\ nextId' = nextId + 1
  /\ IF initialized /\ pending = <<>>
     THEN /\ log' = Append(log, Complete([id |-> nextId, uuids |-> uuids],
                                         ImmediateStatus, services, "query_now"))
          /\ UNCHANGED pending
     ELSE /\ pending' = Append(pending, [id |-> nextId, uuids |-> uuids])
          /\ UNCHANGED log
  /\ lastNotif' = NoNotif /\ lastSvc' = NoSvc /\ lastFind' = NoFind
  /\ UNCHANGED <<alive, initialized, services, handler, svc_watcher, phase,
                 initFilter, requests, secReported, pc, cbStatus,
                 watchRest, uaf, added, endPhase, endStatus, dtorPhase, dtorPc,
                 completed>>

\* ListServices, from the dispatcher or from inside a user callback.
ListServices(uuids) ==
  /\ alive /\ pc \in {"idle", "watcher", "user_init_cb", "drain"}
  /\ nextId <= MaxQueries
  /\ nextId' = nextId + 1
  /\ IF initialized
     THEN /\ log' = Append(log, Complete([id |-> nextId, uuids |-> uuids],
                                         ImmediateStatus, services, "query_now"))
          /\ UNCHANGED pending
     ELSE /\ pending' = Append(pending, [id |-> nextId, uuids |-> uuids])
          /\ UNCHANGED log
  /\ lastNotif' = NoNotif /\ lastSvc' = NoSvc /\ lastFind' = NoFind
  /\ UNCHANGED <<alive, initialized, services, handler, svc_watcher, phase,
                 initFilter, requests, secReported, pc, cbStatus,
                 watchRest, uaf, added, endPhase, endStatus, dtorPhase, dtorPc,
                 completed>>

\* ~RemoteServiceManager, from the dispatcher or from inside a user callback.
Destroy ==
  /\ alive /\ pc \in {"idle", "watcher", "user_init_cb", "drain"}
  /\ alive' = FALSE
  /\ handler' = FALSE
  /\ log' = log \o DestructorEvents(services, pending)
  /\ services' = ClearServices(services).services
  /\ pending' = <<>>
  /\ dtorPhase' = phase
  /\ dtorPc' = pc
  /\ lastNotif' = NoNotif /\ lastSvc' = NoSvc /\ lastFind' = NoFind
  /\ UNCHANGED <<initialized, svc_watcher, phase, initFilter, requests,
                 secReported, pc, cbStatus, watchRest, nextId, uaf, added,
                 endPhase, endStatus, completed>>

\* The notification handler installed by the constructor.  A failed
\* ZX_DEBUG_ASSERT stops a debug build and is compiled out of a release build.
OnNotification(value_handle) ==
  /\ alive /\ handler /\ pc = "idle"
  /\ lastSvc' = NoSvc /\ lastFind' = NoFind
  /\ \/ /\ lastNotif' = [h |-> value_handle,
                         delivered |-> Delivered(services, value_handle)]
        /\ UNCHANGED pc
     \/ /\ services # {}
        /\ ~HandleAssert(Candidate(services, value_handle), value_handle)
        /\ lastNotif' = [h |-> value_handle, delivered |-> <<>>]
        /\ pc' = "aborted"
  /\ UNCHANGED <<alive, initialized, services, pending, handler, svc_watcher,
                 phase, initFilter, requests, secReported, cbStatus,
                 watchRest, nextId, log, uaf, added, endPhase, endStatus,
                 dtorPhase, dtorPc, completed>>

\* A call of FindService, from the dispatcher or from inside a user callback.
CallFindService(handle) ==
  /\ alive /\ pc \in {"idle", "watcher", "user_init_cb", "drain"}
  /\ lastFind' = [h |-> handle, result |-> FindService(services, handle)]
  /\ lastNotif' = NoNotif /\ lastSvc' = NoSvc
  /\ UNCHANGED <<alive, initialized, services, pending, handler, svc_watcher,
                 phase, initFilter, requests, secReported, pc, cbStatus,
                 watchRest, nextId, log, uaf, added, endPhase, endStatus,
                 dtorPhase, dtorPc, completed>>

\* Reading a member through |self| after the manager was destroyed: the
\* freed, moved-from container reads as empty, or the process stops.
UseAfterFree ==
  /\ uaf' = TRUE
  /\ pc' \in {"idle", "aborted"}
  /\ UNCHANGED <<initialized, services, pending, log, cbStatus, watchRest>>

\* svc_watcher_ returns: the rest of the loop of status_cb_wrapper, then
\* status_cb, which is init_cb.
ReturnWatcher ==
  /\ pc = "watcher"
  /\ lastNotif' = NoNotif /\ lastSvc' = NoSvc /\ lastFind' = NoFind
  /\ IF ~alive
     THEN UseAfterFree
     ELSE /\ UNCHANGED <<uaf, services, pending>>
          /\ IF watchRest # <<>>
             THEN /\ log' = Append(log, Ev("watcher", 0, "", <<>>, Head(watchRest)))
                  /\ watchRest' = Tail(watchRest)
                  /\ UNCHANGED <<initialized, pc, cbStatus>>
             ELSE InitCb(cbStatus, log)
  /\ UNCHANGED <<alive, handler, svc_watcher, phase, initFilter, requests,
                 secReported, nextId, added, endPhase, endStatus,
                 dtorPhase, dtorPc, completed>>

\* A drain loop that completes pending_.back().
DrainNextBack(pend) ==
  IF pend = <<>>
  THEN /\ pc' = "idle"
       /\ UNCHANGED log
  ELSE /\ pc' = "drain"
       /\ log' = Append(log, Complete(pend[Len(pend)], cbStatus, services,
                                      "query_drain"))

\* A drain with `if` for `while`: only the first pending request is notified.
DrainNextOnlyFirst(pend) ==
  IF pend = <<>> \/ pend # pending
  THEN /\ pc' = "idle"
       /\ UNCHANGED log
  ELSE /\ pc' = "drain"
       /\ log' = Append(log, Complete(Head(pend), cbStatus, services, "query_drain"))

\* The next iteration of the drain loop of init_cb, up to callback_.
DrainNext(pend) ==
  IF pend = <<>>
  THEN /\ pc' = "idle"
       /\ UNCHANGED log
  ELSE /\ pc' = "drain"
       /\ log' = Append(log, Complete(Head(pend), cbStatus, services, "query_drain"))

\* user_init_cb returns: init_cb goes on to notify the pending requests.
ReturnUserInitCb ==
  /\ pc = "user_init_cb"
  /\ lastNotif' = NoNotif /\ lastSvc' = NoSvc /\ lastFind' = NoFind
  /\ IF ~alive
     THEN UseAfterFree
     ELSE /\ DrainNext(pending)
          /\ UNCHANGED <<uaf, initialized, services, pending, cbStatus, watchRest>>
  /\ UNCHANGED <<alive, handler, svc_watcher, phase, initFilter, requests,
                 secReported, nextId, added, endPhase, endStatus,
                 dtorPhase, dtorPc, completed>>

\* callback_ of pending_.front() returns: pop, and the loop goes on.
ReturnQueryCb ==
  /\ pc = "drain"
  /\ lastNotif' = NoNotif /\ lastSvc' = NoSvc /\ lastFind' = NoFind
  /\ IF ~alive
     THEN UseAfterFree
     ELSE /\ pending' = Tail(pending)
          /\ DrainNext(Tail(pending))
          /\ UNCHANGED <<uaf, initialized, services, cbStatus, watchRest>>
  /\ UNCHANGED <<alive, handler, svc_watcher, phase, initFilter, requests,
                 secReported, nextId, added, endPhase, endStatus,
                 dtorPhase, dtorPc, completed>>

Next ==
  \/ SetServiceWatcher
  \/ \E uuids \in UuidFilters : Initialize(uuids)
  \/ \E status \in TransportStatuses : MtuComplete(status)
  \/ \E data \in ServiceDatas, allocOk \in BOOLEAN : SvcDiscovered(data, allocOk)
  \/ \E status \in TransportStatuses : PrimaryComplete(status)
  \/ \E status \in TransportStatuses : SecondaryComplete(status)
  \/ \E uuids \in UuidFilters : ListServices(uuids)
  \/ Destroy
  \/ ReturnWatcher
  \/ ReturnUserInitCb
  \/ ReturnQueryCb

Spec == Init /\ [][Next]_vars

\* The discovery, the teardown and the notifications the Client hands to the
\* installed handler.  OnNotification assigns no member, so the notifications
\* are left out of Next.
NextRouter ==
  \/ \E uuids \in UuidFilters : Initialize(uuids)
  \/ \E status \in TransportStatuses : MtuComplete(status)
  \/ \E data \in ServiceDatas, allocOk \in BOOLEAN : SvcDiscovered(data, allocOk)
  \/ \E status \in TransportStatuses : PrimaryComplete(status)
  \/ \E status \in TransportStatuses : SecondaryComplete(status)
  \/ Destroy
  \/ ReturnUserInitCb
  \/ \E value_handle \in Handles : OnNotification(value_handle)

SpecRouter == Init /\ [][NextRouter]_vars

\* The discovery, the ListServices requests and the lookups by handle.
\* FindService assigns no member, so the lookups are left out of Next.
NextLookup ==
  \/ \E uuids \in UuidFilters : Initialize(uuids)
  \/ \E status \in TransportStatuses : MtuComplete(status)
  \/ \E data \in ServiceDatas, allocOk \in BOOLEAN : SvcDiscovered(data, allocOk)
  \/ \E status \in TransportStatuses : PrimaryComplete(status)
  \/ \E status \in TransportStatuses : SecondaryComplete(status)
  \/ \E uuids \in UuidFilters : ListServices(uuids)
  \/ ReturnUserInitCb
  \/ ReturnQueryCb
  \/ \E handle \in Handles : CallFindService(handle)

SpecLookup == Init /\ [][NextLookup]_vars

TypeOK ==
  /\ alive \in BOOLEAN /\ initialized \in BOOLEAN
  /\ services \subseteq ServiceDatas
  /\ pc \in {"idle", "watcher", "user_init_cb", "drain", "aborted"}
  /\ phase \in {"none", "mtu", "primary", "secondary", "done"}

----------------------------------------------------------------------------
(* Reading the log *)

LogIdx == 1..Len(log)

QueryEvs == {"query_now", "query_drain", "query_dtor"}

Fired(id) == {j \in LogIdx : log[j].ev \in QueryEvs /\ log[j].id = id}

Issued == 1..(nextId - 1)

ShutDowns(svc) == {j \in LogIdx : log[j].ev = "shutdown" /\ log[j].svc = svc}

NonOverlapping(svcs) ==
  \A s, t \in svcs :
    s # t => (s.range_end < t.range_start \/ t.range_end < s.range_start)

----------------------------------------------------------------------------
\* C1: a notification whose handle is smaller than the start handle of every
\* cataloged service (catalog not empty) is delivered to no service.
C1_BeforeAllDropped ==
  ( /\ lastNotif.h # 0
    /\ services # {}
    /\ \A s \in services : lastNotif.h < s.range_start )
  => lastNotif.delivered = <<>>

----------------------------------------------------------------------------
\* ListServices calls answered at once after user_init_cb was called with an
\* error status.
AfterFailedInit ==
  {p \in LogIdx \X LogIdx :
     /\ p[1] < p[2]
     /\ log[p[1]].ev = "init_cb" /\ IsError(log[p[1]].st)
     /\ log[p[2]].ev = "query_now"}

\* C2 as stated: once Initialize has completed with a failure status, every
\* later ListServices call is resolved with that failure status and an empty
\* result.
C2_LaterQueriesGetFailure ==
  \A p \in AfterFailedInit :
    log[p[2]].st = log[p[1]].st /\ log[p[2]].res = <<>>

\* C2 amended: once Initialize has completed with a failure status, every
\* later ListServices call is resolved at once with a success status and an
\* empty result.
C2_LaterQueriesGetEmptySuccess ==
  \A p \in AfterFailedInit :
    log[p[2]].st = "ok" /\ log[p[2]].res = <<>>

C2_Witness ==
  \E p \in AfterFailedInit :
    endPhase = "secondary" /\ added # {} /\ log[p[2]].uu = {}

----------------------------------------------------------------------------
\* C3: when the manager is destroyed while the MTU exchange, the primary or
\* the secondary discovery is in flight, and that transport callback then
\* fires, user_init_cb is called with the generic failure status.
C3_CompletionAfterDestruction ==
  ( /\ ~alive
    /\ dtorPhase \in {"mtu", "primary", "secondary"}
    /\ phase = "done" )
  => \E i \in LogIdx : log[i].ev = "init_cb" /\ log[i].st = DestroyedStatus

----------------------------------------------------------------------------
\* C4: the callbacks of ListServices calls made before the completion of
\* Initialize never come before the call of user_init_cb; they come in the
\* order of the calls; and each one init_cb resolves gets the status of
\* user_init_cb and the result of its filter over the one final catalog.
C4_FifoResolution ==
  /\ \A i, j \in LogIdx :
       (log[i].ev = "init_cb" /\ log[j].ev \in {"query_drain", "query_dtor"})
         => i < j
  /\ \A j, k \in LogIdx :
       (j < k /\ log[j].ev \in {"query_drain", "query_dtor"}
              /\ log[k].ev \in {"query_drain", "query_dtor"})
         => log[j].id <= log[k].id
  /\ \A j, k \in LogIdx :
       (j < k /\ log[j].ev = "query_drain" /\ log[k].ev = "query_drain")
         => log[j].id < log[k].id
  /\ \A j \in LogIdx :
       log[j].ev = "query_drain"
         => /\ \E i \in 1..(j - 1) :
                 log[i].ev = "init_cb" /\ log[i].st = log[j].st
            /\ alive => log[j].res =
                 IF IsError(log[j].st) \/ services = {} THEN <<>>
                 ELSE SelectSeq(Iterate(services),
                        LAMBDA s : log[j].uu = {} \/ s.uuid \in log[j].uu)
  /\ \E catalog \in SUBSET ServiceDatas :
       \A j \in LogIdx :
         log[j].ev = "query_drain"
           => log[j].res =
                IF IsError(log[j].st) \/ catalog = {} THEN <<>>
                ELSE SelectSeq(Iterate(catalog),
                       LAMBDA s : log[j].uu = {} \/ s.uuid \in log[j].uu)

C4_Witness ==
  /\ alive /\ pc = "idle" /\ services = {SvcA, SvcB}
  /\ \E i, j, k \in LogIdx :
       /\ i < j /\ j < k
       /\ log[i].ev = "init_cb" /\ log[i].st = "ok"
       /\ log[j].ev = "query_drain" /\ log[j].id = 1 /\ log[j].uu = {"B"}
       /\ log[k].ev = "query_drain" /\ log[k].id = 2 /\ log[k].uu = {}

----------------------------------------------------------------------------
\* C5: the callback of every ListServices call is called at most once, and
\* exactly once by the time the initialization has completed or the manager
\* has been destroyed.
C5_ExactlyOnce ==
  /\ \A id \in Issued : Cardinality(Fired(id)) <= 1
  /\ (~alive \/ (initialized /\ pc = "idle"))
       => \A id \in Issued : Cardinality(Fired(id)) = 1

----------------------------------------------------------------------------
\* user_init_cb has been called with an error that ended a discovery phase.
DiscoveryFailed ==
  /\ endPhase \in {"primary", "secondary"}
  /\ \E i \in LogIdx : log[i].ev = "init_cb" /\ IsError(log[i].st)

\* C6: when the primary discovery fails, or the secondary discovery fails
\* with an error other than unsupported group type, then from the call of
\* user_init_cb on the catalog is empty, every record that was added in either
\* phase was shut down exactly once before that call, user_init_cb gets the
\* status the Client reported, and every pending request is resolved by
\* init_cb with that status and an empty result.
C6_FailureRollback ==
  DiscoveryFailed =>
    /\ services = {}
    /\ \A i \in LogIdx :
         log[i].ev = "init_cb" =>
           /\ log[i].st = endStatus
           /\ \A a \in added :
                /\ Cardinality(ShutDowns(a.data)) = 1
                /\ \A j \in ShutDowns(a.data) : j < i
    /\ \A j \in LogIdx :
         log[j].ev = "query_drain" => log[j].st = endStatus /\ log[j].res = <<>>
    /\ (alive /\ pc = "idle") =>
         /\ pending = <<>>
         /\ \A id \in Issued : Cardinality(Fired(id)) = 1

C6_Witness ==
  /\ DiscoveryFailed /\ alive /\ pc = "idle"
  /\ endPhase = "secondary" /\ endStatus = "proto_other"
  /\ \E a, b \in added : a.kind = "primary" /\ b.kind = "secondary"
  /\ \E j \in LogIdx : log[j].ev = "query_drain"

----------------------------------------------------------------------------
\* The secondary discovery ended with unsupported group type and init_cb ran.
Downgraded ==
  /\ endPhase = "secondary" /\ endStatus = "unsupported_group"
  /\ \E i \in LogIdx : log[i].ev = "init_cb"

----------------------------------------------------------------------------
\* What the destructor has called, seen from the step that runs it.
DtorCalls == SubSeq(log', Len(log) + 1, Len(log'))

\* C8: the destructor, in whatever state of the discovery, first replaces the
\* notification handler by an empty one, then shuts down every cataloged
\* record and leaves the catalog empty, then calls every pending request in
\* FIFO order with the generic failure and an empty list; after a
\* destruction from the dispatcher every request has been called exactly
\* once.
C8_Teardown ==
  /\ [][ (alive /\ ~alive') =>
           /\ ~handler' /\ services' = {} /\ pending' = <<>>
           /\ Len(DtorCalls) = 1 + Cardinality(services) + Len(pending)
           /\ DtorCalls[1].ev = "detach"
           /\ \A k \in 1..Cardinality(services) :
                DtorCalls[1 + k].ev = "shutdown"
           /\ {DtorCalls[1 + k].svc : k \in 1..Cardinality(services)} = services
           /\ \A k \in 1..Len(pending) :
                LET c == DtorCalls[1 + Cardinality(services) + k]
                IN /\ c.ev = "query_dtor" /\ c.id = pending[k].id
                   /\ c.st = "failed" /\ c.res = <<>>
        ]_vars
  /\ []( (~alive /\ dtorPc = "idle") =>
           \A id \in Issued : Cardinality(Fired(id)) = 1 )

C8_Witness ==
  /\ ~alive /\ dtorPc = "idle" /\ dtorPhase = "secondary"
  /\ \E i, j, k \in LogIdx :
       /\ i < j /\ j < k
       /\ log[i].ev = "shutdown" /\ log[j].ev = "query_dtor"
       /\ log[k].ev = "query_dtor"

----------------------------------------------------------------------------
\* C9: with non-overlapping handle ranges in the catalog, a notification
\* whose handle lies in the range of a cataloged service is delivered, within
\* the call, once to that service and to no other.
C9_Routing ==
  (lastNotif.h # 0 /\ NonOverlapping(services)) =>
    \A s \in services :
      (s.range_start <= lastNotif.h /\ lastNotif.h <= s.range_end)
        => lastNotif.delivered = <<s>>

C9_Witness ==
  /\ lastNotif.h = 5 /\ services = {SvcA, SvcB}
  /\ lastNotif.delivered = <<SvcB>>

----------------------------------------------------------------------------
\* The handle is past the end of the service with the greatest start handle
\* not above it, or the catalog is empty.
InGapOrEmpty(svcs, h) ==
  \/ svcs = {}
  \/ \E s \in svcs :
       /\ s.range_start <= h
       /\ \A t \in svcs : t.range_start <= h => t.range_start <= s.range_start
       /\ h > s.range_end

\* C10: a notification for a handle in a gap between services or past the
\* last service, or on an empty catalog, is delivered to no service and
\* changes nothing of the manager.
C10_GapDropped ==
  [][ (lastNotif'.h # 0 /\ InGapOrEmpty(services, lastNotif'.h)) =>
        /\ lastNotif'.delivered = <<>>
        /\ UNCHANGED <<alive, initialized, services, pending, handler,
                       svc_watcher, phase, initFilter, requests, pc, cbStatus,
                       watchRest, nextId, log>>
    ]_vars

C10_Witness ==
  /\ lastNotif.h = 4 /\ services = {SvcA, SvcB} /\ lastNotif.delivered = <<>>

----------------------------------------------------------------------------
\* The svc_cb call just made reported a start handle that the catalog held
\* already for another record, and the report was dropped.
DuplicateDropped ==
  /\ alive /\ lastSvc # NoSvc /\ lastSvc \notin services
  /\ Find(services, lastSvc.range_start) # {}

\* C11: when the peer reports a service whose start handle is already in the
\* catalog (within one phase or across the phases), the catalog keeps one
\* entry for that handle, the one of the first report, nothing else of the
\* manager changes, and the discovery can go on to complete with success.
C11_DuplicateKeepsFirst ==
  /\ [](\A s, t \in services : s.range_start = t.range_start => s = t)
  /\ [][ (alive /\ lastSvc' # NoSvc /\ Find(services, lastSvc'.range_start) # {})
           => /\ services' = services
              /\ UNCHANGED <<alive, initialized, pending, phase, requests, pc,
                             log, added>>
       ]_vars
  /\ [](DuplicateDropped =>
          IF phase = "primary"
          THEN ENABLED (PrimaryComplete("ok") /\ phase' = "secondary")
          ELSE ENABLED (SecondaryComplete("ok") /\ cbStatus' = "ok"
                          /\ pc' \in {"watcher", "user_init_cb"}))

C11_Witness ==
  /\ DuplicateDropped /\ phase = "secondary" /\ lastSvc = SvcDup
  /\ services = {SvcA, SvcB}
  /\ [kind |-> "primary", data |-> SvcA] \in added

----------------------------------------------------------------------------
\* The outward calls made by the step.
NewCalls == SubSeq(log', Len(log) + 1, Len(log'))

\* C12: a ListServices callback called with a success status gets exactly the
\* cataloged records whose uuid is in the request's UUID set, or all records
\* when the set is empty, in ascending order of start handle, none repeated
\* and none left out.
C12_FilterResult ==
  [][ \A k \in 1..Len(NewCalls) :
        (NewCalls[k].ev \in QueryEvs /\ NewCalls[k].st = "ok") =>
          LET res == NewCalls[k].res
              uu == NewCalls[k].uu
          IN /\ \A i, j \in 1..Len(res) :
                  i < j => res[i].range_start < res[j].range_start
             /\ {res[i] : i \in 1..Len(res)} =
                  {s \in services : uu = {} \/ s.uuid \in uu}
    ]_vars

C12_Witness ==
  /\ services = {SvcA, SvcB}
  /\ \E i, j \in LogIdx :
       /\ log[i].ev \in QueryEvs /\ log[i].st = "ok"
       /\ log[i].uu = {"B"} /\ log[i].res = <<SvcB>>
       /\ log[j].ev \in QueryEvs /\ log[j].st = "ok"
       /\ log[j].uu = {} /\ log[j].res = <<SvcA, SvcB>>

----------------------------------------------------------------------------
\* The MTU exchange ended with an error while the manager was alive.
MtuFailed ==
  /\ endPhase = "mtu" /\ IsError(endStatus) /\ dtorPhase # "mtu"

\* C13: when the MTU exchange fails, user_init_cb is called (once) with the
\* status of the exchange, no primary and no secondary discovery is ever
\* requested from the Client, and the catalog stays empty.
C13_MtuFailureStops ==
  MtuFailed =>
    /\ \E i \in LogIdx : log[i].ev = "init_cb"
    /\ \A i, j \in LogIdx :
         (log[i].ev = "init_cb" /\ log[j].ev = "init_cb") => i = j
    /\ \A i \in LogIdx : log[i].ev = "init_cb" => log[i].st = endStatus
    /\ requests = <<[kind |-> "mtu", uuids |-> {}]>>
    /\ services = {} /\ added = {}
    /\ \A i \in LogIdx : log[i].ev \notin {"watcher", "shutdown"}

C13_Witness ==
  /\ MtuFailed /\ endStatus = "proto_other" /\ alive /\ pc = "idle"
  /\ initFilter = {"B"}
  /\ \E j \in LogIdx : log[j].ev = "query_drain" /\ log[j].st = "proto_other"

----------------------------------------------------------------------------
\* The calls of svc_watcher_ so far.
Watched == {i \in LogIdx : log[i].ev = "watcher"}

\* C14: svc_watcher_ is called only when the MTU exchange, the primary and the
\* secondary discovery have all ended with success (unsupported group type
\* from the secondary discovery counts as success), never between the
\* phases and never after a failure; a registered watcher is then called
\* once per cataloged service, in ascending order of start handle, before
\* user_init_cb.
C14_WatcherOnSuccessOnly ==
  /\ [](Watched # {} =>
          /\ phase = "done" /\ endPhase = "secondary"
          /\ endStatus \in {"ok", "unsupported_group"}
          /\ \A i \in LogIdx : log[i].ev # "shutdown" \/ ~alive)
  /\ [](\A i, j \in Watched :
          i < j => log[i].svc.range_start < log[j].svc.range_start)
  /\ [](\A i \in Watched, j \in LogIdx : log[j].ev = "init_cb" => i < j)
  /\ []((alive /\ Watched # {} /\ pc # "watcher") =>
          {log[i].svc : i \in Watched} = services)
  /\ [][ ( /\ alive /\ svc_watcher /\ services # {}
           /\ phase = "secondary" /\ phase' = "done"
           /\ endStatus' \in {"ok", "unsupported_group"} )
         => /\ NewCalls = <<Ev("watcher", 0, "", <<>>, First(services))>>
            /\ pc' = "watcher"
       ]_vars

C14_Witness ==
  /\ alive /\ pc = "idle" /\ endStatus = "unsupported_group"
  /\ services = {SvcA, SvcB}
  /\ \E i, j, k \in LogIdx :
       /\ i < j /\ j < k
       /\ log[i].ev = "watcher" /\ log[i].svc = SvcA
       /\ log[j].ev = "watcher" /\ log[j].svc = SvcB
       /\ log[k].ev = "init_cb" /\ log[k].st = "ok"

----------------------------------------------------------------------------
\* user_init_cb has been called with an error status.
SequenceFailed == \E i \in LogIdx : log[i].ev = "init_cb" /\ IsError(log[i].st)

\* C15: FindService(handle) returns the record whose start handle is handle
\* and not-found when there is none (a handle inside a range but not at its
\* start is not found); it changes nothing of the manager; after a failed
\* discovery sequence it returns not-found for every handle, also for the
\* start handle of a service added before the failure.
C15_FindExactStart ==
  /\ [][ lastFind'.h # 0 =>
           /\ \A s \in services :
                s.range_start = lastFind'.h => lastFind'.result = s
           /\ (\A s \in services : s.range_start # lastFind'.h)
                => lastFind'.result = NoSvc
           /\ UNCHANGED <<alive, initialized, services, pending, handler,
                          svc_watcher, phase, initFilter, requests, pc,
                          cbStatus, watchRest, nextId, log>>
       ]_vars
  /\ []((SequenceFailed /\ lastFind.h # 0) => lastFind.result = NoSvc)

C15_Witness ==
  /\ SequenceFailed /\ endPhase = "secondary"
  /\ [kind |-> "primary", data |-> SvcA] \in added
  /\ lastFind = [h |-> 2, result |-> NoSvc]

----------------------------------------------------------------------------
\* The requests of a whole discovery sequence with the filter of Initialize.
AllRequests ==
  << [kind |-> "mtu", uuids |-> {}],
     [kind |-> "primary", uuids |-> initFilter],
     [kind |-> "secondary", uuids |-> initFilter] >>

\* Requests issued to the Client and not completed yet.
InFlight == Len(requests) - Len(completed)

\* C16: the requests go to the Client one after the other: the primary
\* discovery only after the MTU exchange has completed with success, the
\* secondary discovery only after the primary discovery has completed with
\* success, both with the UUID filter given to Initialize, and at most one
\* request is in flight in any state.
C16_SequentialPhases ==
  /\ Len(requests) <= 3
  /\ requests = SubSeq(AllRequests, 1, Len(requests))
  /\ Len(requests) >= 2 => completed[1] = [kind |-> "mtu", st |-> "ok"]
  /\ Len(requests) >= 3 => completed[2] = [kind |-> "primary", st |-> "ok"]
  /\ InFlight \in {0, 1}
  /\ \A k \in 1..Len(completed) : completed[k].kind = requests[k].kind

C16_Witness ==
  /\ alive /\ phase = "secondary" /\ initFilter = {"B"}
  /\ Len(requests) = 3 /\ InFlight = 1 /\ services = {SvcB}

----------------------------------------------------------------------------
\* The calls of the step, when the step is a call of ListServices made from
\* inside svc_watcher_.
ListedFromWatcher == pc = "watcher" /\ alive /\ nextId' = nextId + 1

\* The calls come in the order watcher, user_init_cb, drained requests.
WatcherCompletionDrainOrder ==
  /\ \A i \in Watched, j \in LogIdx : log[j].ev = "init_cb" => i < j
  /\ \A i, j \in LogIdx :
       (log[i].ev = "init_cb" /\ log[j].ev = "query_drain") => i < j

\* C17 as stated: on success initialized_ is set first, then the watcher is
\* called for each cataloged service, then user_init_cb with success, then
\* the pending requests are drained; initialized_ is true while the watcher
\* runs, and a ListServices call made from the watcher is answered at once.
C17_FlagThenWatcher ==
  /\ []((pc = "watcher" /\ alive) => initialized)
  /\ []WatcherCompletionDrainOrder
  /\ [][ ListedFromWatcher =>
           (Len(NewCalls) = 1 /\ NewCalls[1].ev = "query_now") ]_vars

\* C17 amended: on success the watcher is called for each cataloged service
\* while initialized_ is still false, then initialized_ is set, then
\* user_init_cb is called with success, then the pending requests are
\* drained; a ListServices call made from the watcher is appended to the
\* pending queue, without a call of its callback, and is resolved in the
\* drain.
C17_WatcherThenFlag ==
  /\ []((pc = "watcher" /\ alive) => ~initialized)
  /\ []((pc = "user_init_cb" /\ alive) => initialized)
  /\ []WatcherCompletionDrainOrder
  /\ [][ ListedFromWatcher =>
           /\ NewCalls = <<>>
           /\ Len(pending') = Len(pending) + 1
           /\ pending'[Len(pending')].id = nextId ]_vars
  /\ []((alive /\ initialized /\ pc = "idle") =>
          /\ pending = <<>>
          /\ \A id \in Issued : Cardinality(Fired(id)) = 1)

C17_Witness ==
  /\ alive /\ pc = "idle" /\ services = {SvcA, SvcB} /\ endStatus = "ok"
  /\ \E i, j, k \in LogIdx :
       /\ i < j /\ j < k
       /\ log[i].ev = "watcher" /\ log[i].svc = SvcB
       /\ log[j].ev = "init_cb" /\ log[j].st = "ok"
       /\ log[k].ev = "query_drain" /\ log[k].st = "ok"

----------------------------------------------------------------------------
\* C18: initialized_ is false from construction until the discovery sequence
\* ends on a live manager; it is true once the handler that ends the
\* sequence has passed its watcher calls, whatever the final status (MTU
\* failure, discovery failure or success); and once true it is never false
\* again.
C18_FlagMonotonic ==
  /\ [][initialized => initialized']_vars
  /\ [](phase # "done" => ~initialized)
  /\ [](initialized <=> \E i \in LogIdx : log[i].ev = "init_cb")
  /\ []((alive /\ phase = "done" /\ pc # "watcher") => initialized)

C18_Witness ==
  /\ alive /\ pc = "idle" /\ initialized
  /\ endPhase = "primary" /\ endStatus = "failed"
  /\ nextId > 1

----------------------------------------------------------------------------
\* C19: a ListServices call made while initialized_ is true calls its
\* callback before it returns, with the result of its filter over the
\* catalog of that moment, and leaves the pending queue as it is; a call made
\* while initialized_ is false only appends one request to the tail of the
\* pending queue and calls no callback.
C19_ListServicesEffect ==
  [][ nextId' = nextId + 1 =>
        /\ initialized =>
             /\ Len(NewCalls) = 1
             /\ NewCalls[1].ev = "query_now" /\ NewCalls[1].id = nextId
             /\ \A i, j \in 1..Len(NewCalls[1].res) :
                  i < j => NewCalls[1].res[i].range_start
                             < NewCalls[1].res[j].range_start
             /\ {NewCalls[1].res[i] : i \in 1..Len(NewCalls[1].res)} =
                  {s \in services :
                     NewCalls[1].uu = {} \/ s.uuid \in NewCalls[1].uu}
             /\ pending' = pending
        /\ ~initialized =>
             /\ NewCalls = <<>>
             /\ \E uuids \in UuidFilters :
                  pending' = Append(pending, [id |-> nextId, uuids |-> uuids])
        /\ UNCHANGED <<alive, initialized, services, handler, svc_watcher,
                       phase, requests, pc>>
    ]_vars

C19_Witness ==
  /\ alive /\ pc = "user_init_cb" /\ initialized
  /\ Len(pending) = 1 /\ services = {SvcA, SvcB}
  /\ log[Len(log)].ev = "query_now" /\ log[Len(log)].id = 2
  /\ log[Len(log)].res = <<SvcA, SvcB>>

----------------------------------------------------------------------------
\* The step is a callback of the Client: a service report or the end of the
\* MTU exchange, the primary or the secondary discovery.
TransportCallback == lastSvc' # NoSvc \/ completed' # completed

\* C20: a callback of the Client that fires after the manager was destroyed
\* changes nothing of the manager: it adds no service, sets no flag, shuts
\* down no record, calls no watcher and resolves no request.
C20_DeadManagerUntouched ==
  [][ (~alive /\ TransportCallback) =>
        /\ UNCHANGED <<alive, initialized, services, pending, handler,
                       svc_watcher, added, uaf, pc>>
        /\ \A k \in 1..Len(NewCalls) :
             NewCalls[k].ev \notin {"shutdown", "watcher"} \cup QueryEvs
    ]_vars

C20_Witness ==
  /\ ~alive /\ dtorPhase = "primary" /\ dtorPc = "idle"
  /\ lastSvc = SvcA /\ services = {} /\ added = {}

----------------------------------------------------------------------------
\* The calls of user_init_cb so far.
Completions == {i \in LogIdx : log[i].ev = "init_cb"}

----------------------------------------------------------------------------
\* C22: no continuation reads or writes initialized_, services_ or pending_
\* once the manager is destroyed, also when a callback that the continuation
\* itself calls (the watcher, user_init_cb, the callback of a pending
\* request) destroys the manager: the continuation does not touch pending_
\* or services_ again.
C22_NoAccessAfterDestruction == ~uaf

----------------------------------------------------------------------------
\* C23: the ListServices callbacks are called in the order of the ListServices
\* calls, also for a call made from inside user_init_cb or from inside the
\* callback of a request being drained: such a call is not answered before
\* the requests that were queued earlier and are still pending.
C23_CallOrder ==
  \A j, k \in LogIdx :
    (j < k /\ log[j].ev \in QueryEvs /\ log[k].ev \in QueryEvs)
      => log[j].id <= log[k].id

----------------------------------------------------------------------------
\* C24: between events (no operation or continuation of the manager is
\* running) initialized_ true implies that the pending queue is empty; and
\* once user_init_cb has been called with a failure status the catalog is
\* empty, in that state and in every later one.
C24_QuiescentState ==
  /\ (pc = "idle" /\ initialized) => pending = <<>>
  /\ SequenceFailed => services = {}

C24_Witness ==
  /\ alive /\ pc = "idle" /\ initialized /\ SequenceFailed
  /\ added # {} /\ nextId = 3
  /\ \E j, k \in LogIdx :
       /\ log[j].ev = "query_drain" /\ log[j].id = 1
       /\ log[k].ev = "query_now" /\ log[k].id = 2

====
